---- MODULE Spec2Model ----
(***************************************************************************)
(* A model of the LightsOut re-theming engine (src/src/dynamic.ts).        *)
(*                                                                         *)
(* The document is a small universe of elements.  Every element has a tag, *)
(* a parent link (through the parent's light children or through the       *)
(* parent's open shadow root), stylesheet-resolved values (css), and the   *)
(* inline style and dataset the engine writes.  Each engine handler is one *)
(* atomic action: JavaScript runs every callback to completion.            *)
(*                                                                         *)
(* Colours are greys, written as an HSL lightness in percent that is a     *)
(* multiple of 5 (the step of #darken's lighten(0.05)), with an alpha of   *)
(* 0 or 1 and the format of the string that carries them.                  *)
(***************************************************************************)
EXTENDS Integers, Sequences, FiniteSets, TLC

VARIABLES
    parent,           \* node -> its parent node, or NoNode when it has none
    inShadow,         \* node -> TRUE when the parent link goes through the parent's shadow root
    css,              \* node -> the values the page's style sheets give it
    els,              \* node -> inline style and dataset (el.style, el.dataset)
    isEnabled,        \* #isEnabled
    pageRoot,         \* #pageRoot
    elements,         \* #elements, in insertion order
    observers,        \* #observers: the hosts that are keys of the map
    shadowRoots,      \* #shadowRoots: the hosts whose shadow root is in the set, in insertion order
    shadowSheets,     \* #shadowSheets: the hosts whose shadow style sheets are in the set
    hoverColorRules,  \* #hoverColorRules: the selectors that are keys of the map
    backgroundColor,  \* #backgroundColor
    sheetFilled,      \* whether #sheet holds the rules (replaceSync(rules)) or is empty
    docAdopted,       \* occurrences of #sheet in document.adoptedStyleSheets
    adopted,          \* host -> occurrences of #sheet in its shadowRoot.adoptedStyleSheets
    pageObserved,     \* the nodes #pageObserver observes
    liveObs,          \* host -> number of connected observers created by #traverse on its shadow root
    pendingRoot,      \* #pageObserver has undelivered mutation records
    pendingSub,       \* hosts whose sub-tree observer has undelivered mutation records
    raf,              \* host -> requestAnimationFrame callbacks scheduled and not yet run
    mutationObserverOptions,  \* #mutationObserverOptions: attributes, attributeFilter
    lastOp,           \* the handler that ran last
    loop,             \* the repair loop of #darken, run step by step (SpecLoop)
    tnode,            \* the element #darken and #undarken are applied to (SpecElem)
    pre,              \* that element's inline style and dataset before the first call (SpecElem)
    prev,             \* that element's inline style and dataset before the last call (SpecElem)
    hist              \* the calls made on that element, in order (SpecElem)

vars == <<parent, inShadow, css, els, isEnabled, pageRoot, elements, observers,
          shadowRoots, shadowSheets, hoverColorRules, backgroundColor, sheetFilled,
          docAdopted, adopted, pageObserved, liveObs, pendingRoot, pendingSub, raf,
          mutationObserverOptions, lastOp, loop, tnode, pre, prev, hist>>

----------------------------------------------------------------------------
(* Bounds of the model. *)

\* requestAnimationFrame callbacks that may be pending for one host at a time
MaxRaf == 2

\* occurrences of the generated sheet an adopted list may hold
MaxAdopt == 3

\* calls of #darken / #undarken made on the element under test (SpecElem)
MaxOps == 3

----------------------------------------------------------------------------
(* Colour values and the colord operations #darken uses. *)

\* The empty string: an inline declaration that is absent, a dataset key that
\* is absent, a computed value of an element outside the document.
Absent == [f |-> "none", l |-> 0, a |-> 0]

Rgb(l, a) == [f |-> "rgb", l |-> l, a |-> a]

Hex(l, a) == [f |-> "hex", l |-> l, a |-> a]

Named(l, a) == [f |-> "named", l |-> l, a |-> a]

\* colord(input): an input that is no colour parses to opaque black.
Colord(v) == IF v = Absent THEN [l |-> 0, a |-> 1] ELSE [l |-> v.l, a |-> v.a]

CLighten(c, pct) == [c EXCEPT !.l = IF c.l + pct > 100 THEN 100 ELSE c.l + pct]

CDarken(c, pct) == [c EXCEPT !.l = IF c.l - pct < 0 THEN 0 ELSE c.l - pct]

CAlpha(c, a) == [c EXCEPT !.a = a]

ToHex(c) == Hex(c.l, c.a)

\* brightness < 0.5; for a grey the brightness is its lightness
IsDark(c) == c.l < 50

\* relative luminance (WCAG) of the grey of lightness l, times 10000
LuminanceTable ==
    <<0, 39, 100, 196, 331, 509, 732, 1005, 1329, 1706, 2140, 2633, 3185, 3801,
      4480, 5225, 6038, 6921, 7874, 8900, 10000>>

Luminance(c) == LuminanceTable[(c.l \div 5) + 1]

\* contrast ratio times 100, floored to two decimals as colord does
Contrast(c1, c2) ==
    LET l1 == Luminance(c1)
        l2 == Luminance(c2)
        hi == IF l1 > l2 THEN l1 ELSE l2
        lo == IF l1 > l2 THEN l2 ELSE l1
    IN ((hi + 500) * 100) \div (lo + 500)

\* minimal contrast of a level for normal text, times 100
MinContrast(level) == IF level = "AAA" THEN 700 ELSE 450

IsReadable(c, bg, level) == Contrast(c, Colord(bg)) >= MinContrast(level)

\* what el.style returns after setProperty(value): a hex string is serialised
\* as rgb(), a keyword or an rgb() string is kept, the empty string removes
\* the declaration.
Serialize(v) == IF v.f = "hex" THEN Rgb(v.l, v.a) ELSE v

----------------------------------------------------------------------------
(* The foreground repair loop of #darken. *)

LightenPct == 5

MaxAttempts == 10

\* let colored = colord(color); let readable = colored.isReadable(darkBgColor);
\* let readableAttempts = 0
LoopStart(color, darkBgColor) ==
    [colored |-> Colord(color), bg |-> darkBgColor,
     readable |-> IsReadable(Colord(color), darkBgColor, "AA"),
     readableAttempts |-> 0, pc |-> "while"]

LoopCond(s) == ~s.readable /\ s.readableAttempts < MaxAttempts

LoopBody(s) ==
    LET c == CLighten(s.colored, LightenPct)
    IN [s EXCEPT !.colored = c,
                 !.readable = IsReadable(c, s.bg, "AAA"),
                 !.readableAttempts = s.readableAttempts + 1]

\* one evaluation of the while condition, with the body when it holds
LoopStep(s) == IF LoopCond(s) THEN LoopBody(s) ELSE [s EXCEPT !.pc = "exit"]

RECURSIVE LoopRun(_)
LoopRun(s) == IF s.pc = "exit" THEN s ELSE LoopRun(LoopStep(s))

----------------------------------------------------------------------------
(* The document. *)

NoNode == "none"

\* the elements, in document order when they are siblings
DocOrder == <<"body", "div", "img", "host", "inner", "leaf">>

Nodes == {DocOrder[i] : i \in 1..Len(DocOrder)}

\* el.tagName.toLowerCase()
Tag(n) ==
    CASE n = "body" -> "body"
      [] n = "div" -> "div"
      [] n = "img" -> "img"
      [] n = "host" -> "x-host"
      [] n = "inner" -> "x-inner"
      [] n = "leaf" -> "x-host"

\* node.shadowRoot is an open shadow root
HasShadow(n) == n \in {"host", "inner"}

Hosts == {n \in Nodes : HasShadow(n)}

\* where each element sits when the page is loaded
HomeParent(n) ==
    CASE n = "body" -> NoNode
      [] n = "div" -> "body"
      [] n = "img" -> "body"
      [] n = "host" -> "body"
      [] n = "inner" -> "host"
      [] n = "leaf" -> "inner"

HomeInShadow(n) == n \in {"inner", "leaf"}

\* the elements the page's scripts remove and insert, and where they insert them
Slots(n) ==
    CASE n = "host" -> {<<"body", FALSE>>}
      [] OTHER -> {}

Movable == {n \in Nodes : Slots(n) # {}}

\* the places where the page's scripts insert and remove text nodes: the
\* children of the element (FALSE), or of its shadow root (TRUE)
TextSlots == {<<"host", TRUE>>}

\* the elements the page assigns to the pageRoot property
PageRoots == {"body", "host"}

\* the values the page assigns to the pageRoot property that are no
\* HTMLElement: null, and a text node
NonElements == {"null", "text"}

\* every value the page assigns to the pageRoot property
PageRootInputs == PageRoots \cup NonElements

\* the sequence s restricted to the members of set, order kept
RECURSIVE Restrict(_, _)
Restrict(s, set) ==
    IF s = <<>> THEN <<>>
    ELSE (IF Head(s) \in set THEN <<Head(s)>> ELSE <<>>) \o Restrict(Tail(s), set)

\* the children of p, in its light tree (sh = FALSE) or in its shadow root
Children(p, sh) ==
    Restrict(DocOrder, {n \in Nodes : parent[n] = p /\ inShadow[n] = sh})

\* the elements of a list of siblings and their light descendants, in document order
RECURSIVE Descendants(_)
Descendants(sibs) ==
    IF sibs = <<>> THEN <<>>
    ELSE <<Head(sibs)>> \o Descendants(Children(Head(sibs), FALSE))
         \o Descendants(Tail(sibs))

\* (root.shadowRoot || root).querySelectorAll('*'), node.shadowRoot.querySelectorAll('*')
QuerySelectorAll(p, sh) == Descendants(Children(p, sh))

\* element.isConnected: body is in the document
RECURSIVE IsConnected(_)
IsConnected(n) ==
    \/ n = "body"
    \/ parent[n] # NoNode /\ IsConnected(parent[n])

SeqSet(s) == {s[i] : i \in 1..Len(s)}

\* Set.prototype.add on a set kept in insertion order
SetAdd(s, x) == IF x \in SeqSet(s) THEN s ELSE Append(s, x)

----------------------------------------------------------------------------
(* Inline style, dataset and computed style of an element. *)

\* background-image values: the empty string, the keyword none, a url(), or
\* a gradient function with the lightness of each colour stop
AbsentImg == [k |-> "empty", s |-> <<>>]

NoneImg == [k |-> "none", s |-> <<>>]

UrlImg == [k |-> "url", s |-> <<>>]

Gradient(stops) == [k |-> "gradient", s |-> stops]

\* an element with no inline declaration and an empty dataset
Bare ==
    [color |-> Absent, backgroundColor |-> Absent, borderColor |-> Absent,
     backgroundImage |-> AbsentImg,
     lightsOut |-> FALSE, lightsOutGradient |-> FALSE,
     originalColor |-> Absent, originalBgColor |-> Absent,
     originalBorderColor |-> Absent, originalBgImage |-> AbsentImg]

\* the values of the page's style sheets: color Absent inherits, borderColor
\* Absent is the initial value currentcolor
Sheet(color, bg, border, img) ==
    [color |-> color, backgroundColor |-> bg, borderColor |-> border,
     backgroundImage |-> img]

Transparent == Rgb(0, 0)

\* a computed colour is resolved: rgb() or rgba()
Resolve(v) == Rgb(v.l, v.a)

\* the computed color: the inline declaration, else the style sheets', else inherited
RECURSIVE ComputedColor(_, _)
ComputedColor(n, e) ==
    IF e[n].color # Absent THEN Resolve(e[n].color)
    ELSE IF css[n].color # Absent THEN Resolve(css[n].color)
    ELSE IF parent[n] = NoNode THEN Rgb(0, 1)
    ELSE ComputedColor(parent[n], e)

\* getComputedStyle(el), with the inline styles e; an element outside the
\* document has empty computed values
GetComputedStyle(n, e) ==
    IF ~IsConnected(n)
    THEN [color |-> Absent, backgroundColor |-> Absent, borderColor |-> Absent,
          backgroundImage |-> AbsentImg]
    ELSE [color |-> ComputedColor(n, e),
          backgroundColor |->
              IF e[n].backgroundColor # Absent THEN Resolve(e[n].backgroundColor)
              ELSE Resolve(css[n].backgroundColor),
          borderColor |->
              IF e[n].borderColor # Absent THEN Resolve(e[n].borderColor)
              ELSE IF css[n].borderColor # Absent THEN Resolve(css[n].borderColor)
              ELSE ComputedColor(n, e),
          backgroundImage |->
              IF e[n].backgroundImage # AbsentImg THEN e[n].backgroundImage
              ELSE css[n].backgroundImage]

----------------------------------------------------------------------------
(* Configuration (constructor). *)

\* #htmlFilterSet: LightsOut.defaultFilterSelectors
HtmlFilterSet ==
    {"html", "head", "title", "meta", "script", "style", "link", "iframe", "svg",
     "img", "canvas", "video", "audio"}

\* #pageRootAlpha
PageRootAlpha == 1

\* #preserveHoverBorderColor, as the page constructs the engine
PreserveHoverBorderColor == TRUE

\* el.matches(selector), for the tag selectors of the model
Matches(n, selector) == Tag(n) = selector

\* selector.replace(/:hover/g, '')
StripHover(selector) ==
    CASE selector = "div:hover" -> "div"
      [] selector = "x-host:hover" -> "x-host"

\* selectors of the :hover rules with a border declaration, in the
\* document's style sheets and in the style sheets of a shadow root
DocHoverSelectors == {"div:hover"}

ShadowHoverSelectors(h) == IF h = "inner" THEN {"x-host:hover"} ELSE {}

----------------------------------------------------------------------------
(* #darken and #undarken.  The handlers work on a record E of the engine's  *)
(* fields and the elements' inline state, so that a handler is the         *)
(* composition of the methods it calls.                                    *)

\* a #darken that skips the test of the filter set
IsFilteredNever(n) == FALSE

\* Array.from(this.#htmlFilterSet).some(selector => el.matches(selector))
IsFiltered(n) == \E selector \in HtmlFilterSet : Matches(n, selector)

\* a #darken that never finds the marker
IsMarkedNever(el) == FALSE

\* el.dataset.lightsOut === 'true'
IsMarked(el) == el.lightsOut

\* the background #darken chooses, from the computed background
DarkBgColor(n, bgColor) ==
    IF Tag(n) = Tag(pageRoot)
    THEN ToHex(CAlpha(CDarken(Colord(bgColor), 90), PageRootAlpha))
    ELSE IF ~IsDark(Colord(bgColor)) THEN ToHex(CDarken(Colord(bgColor), 90))
    ELSE bgColor

\* Array.from(this.#hoverColorRules.entries()).find(...) finds a rule
HasHoverRule(n, rules) == \E selector \in rules : Matches(n, StripHover(selector))

\* every colour token of a gradient, lightened when dark and darkened otherwise
RewriteGradient(img) ==
    Gradient([i \in 1..Len(img.s) |->
                 IF img.s[i] < 50
                 THEN (IF img.s[i] + 70 > 100 THEN 100 ELSE img.s[i] + 70)
                 ELSE (IF img.s[i] - 70 < 0 THEN 0 ELSE img.s[i] - 70)])

\* the body of `if (el.dataset.lightsOut !== 'true')`: snapshot, write, mark
Restyle(el, cs, colored, darkBgColor, hoverRule) ==
    LET border == Colord(cs.borderColor).a > 0 /\ ~hoverRule
        gradient == cs.backgroundImage # NoneImg /\ cs.backgroundImage.k = "gradient"
    IN [el EXCEPT
          !.originalColor = IF el.color # Absent THEN el.color ELSE @,
          !.originalBgColor = IF el.backgroundColor # Absent THEN el.backgroundColor ELSE @,
          !.originalBorderColor =
              IF border /\ el.borderColor # Absent THEN el.borderColor ELSE @,
          !.borderColor =
              IF border THEN Serialize(ToHex(CDarken(colored, 45))) ELSE @,
          !.originalBgImage =
              IF gradient /\ el.backgroundImage # AbsentImg THEN el.backgroundImage ELSE @,
          !.backgroundImage = IF gradient THEN RewriteGradient(cs.backgroundImage) ELSE @,
          !.lightsOutGradient = IF gradient THEN TRUE ELSE @,
          !.color = Serialize(ToHex(colored)),
          !.backgroundColor = Serialize(darkBgColor),
          !.lightsOut = TRUE]

\* #darken(el)
Darken(n, E) ==
    LET cs == GetComputedStyle(n, E.els)
        darkBgColor == DarkBgColor(n, cs.backgroundColor)
        lp == LoopRun(LoopStart(cs.color, darkBgColor))
    IN IF IsFiltered(n) THEN E
       ELSE [E EXCEPT
               !.backgroundColor =
                   IF Tag(n) = Tag(pageRoot) /\ @ = Absent THEN darkBgColor ELSE @,
               !.els[n] =
                   IF IsMarked(@) THEN @
                   ELSE Restyle(@, cs, lp.colored, darkBgColor,
                                HasHoverRule(n, E.hoverColorRules))]

\* #undarken(el)
UndarkenEl(el) ==
    IF ~IsMarked(el) THEN el
    ELSE [el EXCEPT
            !.lightsOut = FALSE,
            !.color = el.originalColor,
            !.originalColor = Absent,
            !.backgroundColor = el.originalBgColor,
            !.originalBgColor = Absent,
            !.borderColor = el.originalBorderColor,
            !.originalBorderColor = Absent,
            !.lightsOutGradient = FALSE,
            !.backgroundImage = IF el.lightsOutGradient THEN el.originalBgImage ELSE @,
            !.originalBgImage = IF el.lightsOutGradient THEN AbsentImg ELSE @]

Undarken(n, E) == [E EXCEPT !.els[n] = UndarkenEl(@)]

\* this.#elements.forEach(this.#darken.bind(this))
RECURSIVE DarkenAll(_, _)
DarkenAll(list, E) ==
    IF list = <<>> THEN E ELSE DarkenAll(Tail(list), Darken(Head(list), E))

\* this.#elements.forEach(this.#undarken.bind(this))
RECURSIVE UndarkenAll(_, _)
UndarkenAll(list, E) ==
    IF list = <<>> THEN E ELSE UndarkenAll(Tail(list), Undarken(Head(list), E))

----------------------------------------------------------------------------
(* What the observers are told of the engine's own writes. *)

\* the host whose shadow tree holds the children of p (in p's shadow root
\* when sh), or NoNode when they are in a light tree
RECURSIVE TreeHost(_, _)
TreeHost(p, sh) ==
    IF sh THEN p
    ELSE IF parent[p] = NoNode THEN NoNode
    ELSE TreeHost(parent[p], inShadow[p])

\* p and its ancestors in p's own tree
RECURSIVE TreeAncestors(_)
TreeAncestors(p) ==
    {p} \cup (IF parent[p] = NoNode \/ inShadow[p] THEN {} ELSE TreeAncestors(parent[p]))

\* the attributeFilter option the page gives the constructor: no array, or
\* an array of attribute names
NoFilter == [isArray |-> FALSE, list |-> <<>>]

AttributeFilterInputs ==
    {[isArray |-> TRUE, list |-> <<"style">>],
     [isArray |-> TRUE, list |-> <<"class">>],
     [isArray |-> TRUE, list |-> <<"data-lights-out", "style">>]}

\* the options the constructor leaves in #mutationObserverOptions:
\* attributes: true and attributeFilter.filter(attr => attr !== 'style')
\* when the option is an array
Construct(attributeFilter) ==
    IF attributeFilter.isArray
    THEN [attributes |-> TRUE,
          attributeFilter |-> {a \in SeqSet(attributeFilter.list) : a # "style"}]
    ELSE [attributes |-> FALSE, attributeFilter |-> {}]

\* the attributes of an element that differ between the inline states a and b
Written(a, b) ==
    (IF <<a.color, a.backgroundColor, a.borderColor, a.backgroundImage>>
          # <<b.color, b.backgroundColor, b.borderColor, b.backgroundImage>>
     THEN {"style"} ELSE {})
    \cup (IF a.lightsOut # b.lightsOut THEN {"data-lights-out"} ELSE {})

\* an observer with the engine's options queues a record for the change of
\* n from e0[n] to e1[n]
Observes(n, e0, e1) ==
    /\ mutationObserverOptions.attributes
    /\ Written(e0[n], e1[n]) \cap mutationObserverOptions.attributeFilter # {}

\* the host in whose shadow tree n sits, or NoNode
TreeOf(n) == IF parent[n] = NoNode THEN NoNode ELSE TreeHost(parent[n], inShadow[n])

\* the hosts whose connected sub-tree observer queues a record for the
\* writes that turn the inline states e0 into those of E
SubQueued(e0, E) ==
    {h \in Hosts : E.liveObs[h] > 0 /\ \E n \in Nodes : Observes(n, e0, E.els) /\ TreeOf(n) = h}

\* the root observer, observing targets, queues a record for those writes
RootQueued(e0, e1, targets) ==
    \E n \in Nodes : Observes(n, e0, e1) /\ TreeAncestors(n) \cap targets # {}

\* the records the sub-tree observers queue during a pass
QueueSub(e0, E) == [E EXCEPT !.pendingSub = @ \cup SubQueued(e0, E)]

----------------------------------------------------------------------------
(* Indexing: #clear, #traverse, #getHoverBorderColorRules, #walk, #update. *)

\* the engine's fields and the elements' inline state, as the handlers read them
Cur ==
    [els |-> els, elements |-> elements, observers |-> observers,
     shadowRoots |-> shadowRoots, shadowSheets |-> shadowSheets,
     hoverColorRules |-> hoverColorRules, backgroundColor |-> backgroundColor,
     adopted |-> adopted, liveObs |-> liveObs, pendingSub |-> pendingSub]

\* observer.disconnect() and this.#observers.delete(element): a disconnected
\* observer delivers none of its queued records
DropObserver(h, E) ==
    [E EXCEPT !.liveObs[h] = IF @ > 0 THEN @ - 1 ELSE 0,
              !.pendingSub = @ \ {h},
              !.observers = @ \ {h}]

RECURSIVE DropObservers(_, _)
DropObservers(hs, E) ==
    IF hs = {} THEN E
    ELSE LET h == CHOOSE x \in hs : TRUE
         IN DropObservers(hs \ {h}, DropObserver(h, E))

\* the observers #clear disconnects and deletes
Stale(E) == {h \in E.observers : ~IsConnected(h)}

\* #clear()
Clear(E) ==
    DropObservers(Stale(E),
        [E EXCEPT !.elements = <<>>, !.shadowRoots = <<>>, !.shadowSheets = {},
                  !.hoverColorRules = {}])

\* if (!this.#observers.has(host)) { new MutationObserver(...).observe(...);
\* this.#observers.set(host, observer) }
EnsureObserver(h, E) ==
    IF h \in E.observers THEN E
    ELSE [E EXCEPT !.liveObs[h] = @ + 1, !.observers = @ \cup {h}]

\* #traverse(node), and its forEach over a list of nodes
RECURSIVE Traverse(_, _), TraverseAll(_, _)
Traverse(node, E) ==
    LET E1 == [E EXCEPT !.elements = SetAdd(@, node)]
    IN IF ~HasShadow(node) THEN E1
       ELSE LET E2 == EnsureObserver(node, E1)
                E3 == [E2 EXCEPT !.shadowRoots = SetAdd(@, node),
                                 !.shadowSheets = @ \cup {node}]
            IN TraverseAll(QuerySelectorAll(node, TRUE), E3)

TraverseAll(list, E) ==
    IF list = <<>> THEN E ELSE TraverseAll(Tail(list), Traverse(Head(list), E))

\* #getHoverBorderColorRules()
GetHoverBorderColorRules(E) ==
    [E EXCEPT !.hoverColorRules =
        @ \cup DocHoverSelectors
          \cup UNION {ShadowHoverSelectors(h) : h \in E.shadowSheets}]

\* #walk(root)
Walk(root, E) ==
    LET E1 == [E EXCEPT !.elements = SetAdd(@, root)]
        E2 == TraverseAll(QuerySelectorAll(root, HasShadow(root)), E1)
    IN IF PreserveHoverBorderColor THEN GetHoverBorderColorRules(E2) ELSE E2

\* an #update that appends the sheet to no adopted list
AdoptNone(E) == E

\* shadowRoot.adoptedStyleSheets = [...shadowRoot.adoptedStyleSheets, this.#sheet]
AdoptAll(E) ==
    [E EXCEPT !.adopted =
        [h \in Hosts |-> IF h \in SeqSet(E.shadowRoots) THEN @[h] + 1 ELSE @[h]]]

\* #update(root)
Update(root, E) ==
    LET E1 == Walk(root, Clear(E))
    IN QueueSub(E.els, AdoptAll(DarkenAll(E1.elements, E1)))

----------------------------------------------------------------------------
(* The handlers. *)

\* the engine's fields and the elements' inline state become those of E
Commit(E) ==
    /\ els' = E.els
    /\ elements' = E.elements
    /\ observers' = E.observers
    /\ shadowRoots' = E.shadowRoots
    /\ shadowSheets' = E.shadowSheets
    /\ hoverColorRules' = E.hoverColorRules
    /\ backgroundColor' = E.backgroundColor
    /\ adopted' = E.adopted
    /\ liveObs' = E.liveObs
    /\ pendingSub' = E.pendingSub

\* an adopted list of the model holds at most MaxAdopt occurrences
Fits(E) == \A h \in Hosts : E.adopted[h] <= MaxAdopt

harness == <<loop, tnode, pre, prev, hist>>

\* enable()
EnableBody ==
    \E E \in {Update(pageRoot, Cur)} :
       /\ docAdopted < MaxAdopt
       /\ Fits(E)
       /\ isEnabled' = TRUE
       /\ pageObserved' = pageObserved \cup {pageRoot}
       /\ sheetFilled' = TRUE
       /\ docAdopted' = docAdopted + 1
       /\ pendingRoot' = (pendingRoot \/ RootQueued(els, E.els, pageObserved \cup {pageRoot}))
       /\ Commit(E)
       /\ UNCHANGED <<parent, inShadow, css, pageRoot, raf, mutationObserverOptions, harness>>

\* a disable() without the loop over #observers
DisconnectNone(E) == E

\* this.#observers.forEach((observer, element) => { observer.disconnect();
\* this.#observers.delete(element) })
DisconnectAll(E) == DropObservers(E.observers, E)

\* disable(), on the engine's fields and the elements
DisableFields(E) ==
    LET E1 == Walk(pageRoot, E)
        E2 == UndarkenAll(E1.elements, [E1 EXCEPT !.backgroundColor = Absent])
    IN Clear(DisconnectAll(E2))

\* disable()
DisableBody ==
    \E E3 \in {DisableFields(Cur)} :
       /\ isEnabled' = FALSE
       /\ sheetFilled' = FALSE
       /\ pageObserved' = {}
       /\ pendingRoot' = FALSE
       /\ Commit(E3)
       /\ UNCHANGED <<parent, inShadow, css, pageRoot, docAdopted, raf,
                      mutationObserverOptions, harness>>

Enable == EnableBody /\ lastOp' = "enable"

Disable == DisableBody /\ lastOp' = "disable"

\* a toggle() that calls the method of the current state
ForceSame(force) == IF force = "undefined" THEN isEnabled ELSE force = "true"

\* if (force === undefined) { force = !this.#isEnabled }
Force(force) == IF force = "undefined" THEN ~isEnabled ELSE force = "true"

\* toggle(force)
Toggle(force) ==
    /\ IF Force(force) THEN EnableBody ELSE DisableBody
    /\ lastOp' = "toggle"

\* a setter that observes the new root without disconnecting first
RebindKeep(root) == pageObserved \cup {root}

\* this.#pageObserver.disconnect(); this.#pageObserver.observe(this.#pageRoot, ...)
Rebind(root) == {root}

\* a setter that takes every value for an HTMLElement
IsHTMLElementAlways(root) == TRUE

\* root instanceof HTMLElement
IsHTMLElement(root) == root \in Nodes

\* set pageRoot(root): throws when root is no HTMLElement, and assigns and
\* re-binds the root observer otherwise
SetPageRoot(root) ==
    /\ IF ~IsHTMLElement(root)
       THEN /\ lastOp' = "threw"
            /\ UNCHANGED <<pageRoot, pageObserved, pendingRoot>>
       ELSE /\ pageRoot' = root
            /\ pageObserved' = IF isEnabled THEN Rebind(root) ELSE pageObserved
            /\ pendingRoot' = IF isEnabled THEN FALSE ELSE pendingRoot
            /\ lastOp' = "other"
    /\ UNCHANGED <<parent, inShadow, css, els, isEnabled, elements, observers,
                   shadowRoots, shadowSheets, hoverColorRules, backgroundColor,
                   sheetFilled, docAdopted, adopted, liveObs, pendingSub, raf,
                   mutationObserverOptions, harness>>

\* a childList record for the children of p is queued for every connected
\* observer whose target's tree holds p (childList: true, subtree: true)
Notify(p, sh) ==
    /\ pendingSub' =
           pendingSub \cup {h \in Hosts : h = TreeHost(p, sh) /\ liveObs[h] > 0}
    /\ pendingRoot' = (pendingRoot \/ (~sh /\ TreeAncestors(p) \cap pageObserved # {}))

domFrame == <<css, els, isEnabled, pageRoot, elements, observers, shadowRoots,
              shadowSheets, hoverColorRules, backgroundColor, sheetFilled,
              docAdopted, adopted, pageObserved, liveObs, raf,
              mutationObserverOptions, harness>>

\* the page removes n from its parent
RemoveChild(n) ==
    /\ n \in Movable
    /\ parent[n] # NoNode
    /\ Notify(parent[n], inShadow[n])
    /\ parent' = [parent EXCEPT ![n] = NoNode]
    /\ inShadow' = [inShadow EXCEPT ![n] = FALSE]
    /\ lastOp' = "other"
    /\ UNCHANGED domFrame

\* the page inserts the parentless n under p, or in p's shadow root
InsertChild(n, p, sh) ==
    /\ n \in Movable
    /\ parent[n] = NoNode
    /\ <<p, sh>> \in Slots(n)
    /\ Notify(p, sh)
    /\ parent' = [parent EXCEPT ![n] = p]
    /\ inShadow' = [inShadow EXCEPT ![n] = sh]
    /\ lastOp' = "other"
    /\ UNCHANGED domFrame

\* the page inserts or removes a text node among the children of p, or of
\* p's shadow root: a childList record, and no change to the elements
ChangeText(p, sh) ==
    /\ <<p, sh>> \in TextSlots
    /\ Notify(p, sh)
    /\ lastOp' = "other"
    /\ UNCHANGED <<parent, inShadow>>
    /\ UNCHANGED domFrame

\* #pageObserver's callback: this.#update(this.#pageRoot)
PageCallback ==
    \E E \in {Update(pageRoot, Cur)} :
       /\ pendingRoot
       /\ Fits(E)
       /\ pendingRoot' = RootQueued(els, E.els, pageObserved)
       /\ Commit(E)
       /\ lastOp' = "other"
       /\ UNCHANGED <<parent, inShadow, css, isEnabled, pageRoot, sheetFilled,
                      docAdopted, pageObserved, raf, mutationObserverOptions, harness>>

\* a sub-tree observer's callback: requestAnimationFrame(() => {...})
SubCallback(h) ==
    /\ h \in pendingSub
    /\ raf[h] < MaxRaf
    /\ pendingSub' = pendingSub \ {h}
    /\ raf' = [raf EXCEPT ![h] = @ + 1]
    /\ lastOp' = "other"
    /\ UNCHANGED <<parent, inShadow, css, els, isEnabled, pageRoot, elements,
                   observers, shadowRoots, shadowSheets, hoverColorRules,
                   backgroundColor, sheetFilled, docAdopted, adopted, pageObserved,
                   liveObs, pendingRoot, mutationObserverOptions, harness>>

\* the frame callback: if (node.shadowRoot) { this.#update(node.shadowRoot.host) }
FrameCallback(h) ==
    \E E \in {IF HasShadow(h) THEN Update(h, Cur) ELSE Cur} :
       /\ raf[h] > 0
       /\ Fits(E)
       /\ raf' = [raf EXCEPT ![h] = @ - 1]
       /\ pendingRoot' = (pendingRoot \/ RootQueued(els, E.els, pageObserved))
       /\ Commit(E)
       /\ lastOp' = "other"
       /\ UNCHANGED <<parent, inShadow, css, isEnabled, pageRoot, sheetFilled,
                      docAdopted, pageObserved, mutationObserverOptions, harness>>

----------------------------------------------------------------------------
(* The engine in a page: Spec. *)

\* the page's style sheets and inline styles when it is loaded
PageCss ==
    [n \in Nodes |->
        CASE n = "body" -> Sheet(Rgb(0, 1), Rgb(100, 1), Absent, NoneImg)
          [] n = "div" -> Sheet(Absent, Transparent, Absent, NoneImg)
          [] n = "img" -> Sheet(Absent, Transparent, Absent, NoneImg)
          [] n = "host" -> Sheet(Rgb(100, 1), Rgb(20, 1), Transparent, NoneImg)
          [] n = "inner" -> Sheet(Absent, Transparent, Absent, Gradient(<<100, 0>>))
          [] n = "leaf" -> Sheet(Rgb(50, 1), Rgb(100, 1), Rgb(0, 1), NoneImg)]

PageEls ==
    [n \in Nodes |->
        CASE n = "div" -> [Bare EXCEPT !.color = Rgb(0, 1), !.backgroundColor = Rgb(100, 1),
                                       !.borderColor = Named(0, 1)]
          [] n = "img" -> [Bare EXCEPT !.borderColor = Rgb(0, 1)]
          [] n = "inner" -> [Bare EXCEPT !.backgroundImage = Gradient(<<100, 0>>)]
          [] OTHER -> Bare]

LoopIdle == [colored |-> Colord(Absent), bg |-> Absent, readable |-> FALSE,
             readableAttempts |-> 0, pc |-> "idle"]

\* the fields of a LightsOut just constructed
Fresh ==
    /\ isEnabled = FALSE
    /\ pageRoot = "body"
    /\ elements = <<>>
    /\ observers = {}
    /\ shadowRoots = <<>>
    /\ shadowSheets = {}
    /\ hoverColorRules = {}
    /\ backgroundColor = Absent
    /\ sheetFilled = FALSE
    /\ docAdopted = 0
    /\ adopted = [h \in Hosts |-> 0]
    /\ pageObserved = {}
    /\ liveObs = [h \in Hosts |-> 0]
    /\ pendingRoot = FALSE
    /\ pendingSub = {}
    /\ raf = [h \in Hosts |-> 0]
    /\ lastOp = "other"

\* the page as it looks to an engine constructed with the attributeFilter
\* option
Constructed(attributeFilter) ==
    /\ Fresh
    /\ mutationObserverOptions = Construct(attributeFilter)

\* the page as loaded
Loaded ==
    /\ parent = [n \in Nodes |-> HomeParent(n)]
    /\ inShadow = [n \in Nodes |-> HomeInShadow(n)]

\* no element is under test
NoHarness ==
    /\ tnode = NoNode
    /\ pre = Bare
    /\ prev = Bare
    /\ hist = <<>>

Init ==
    /\ Constructed(NoFilter)
    /\ Loaded
    /\ css = PageCss
    /\ els = PageEls
    /\ loop = LoopIdle
    /\ NoHarness

Next ==
    \/ Enable
    \/ Disable
    \/ \E force \in {"undefined", "true", "false"} : Toggle(force)
    \/ \E root \in PageRootInputs : SetPageRoot(root)
    \/ \E n \in Nodes : RemoveChild(n)
    \/ \E n \in Nodes, p \in Nodes, sh \in BOOLEAN : InsertChild(n, p, sh)
    \/ \E p \in Nodes, sh \in BOOLEAN : ChangeText(p, sh)
    \/ PageCallback
    \/ \E h \in Hosts : SubCallback(h)
    \/ \E h \in Hosts : FrameCallback(h)

Spec == Init /\ [][Next]_vars

----------------------------------------------------------------------------
(* The engine constructed with an attribute allow-list, in a page that   *)
(* makes no mutation of its own: SpecAttr.                                *)

InitAttr ==
    /\ \E attributeFilter \in AttributeFilterInputs : Constructed(attributeFilter)
    /\ Loaded
    /\ css = PageCss
    /\ els = PageEls
    /\ loop = LoopIdle
    /\ NoHarness

NextAttr ==
    \/ Enable
    \/ Disable
    \/ PageCallback
    \/ \E h \in Hosts : SubCallback(h)
    \/ \E h \in Hosts : FrameCallback(h)

SpecAttr == InitAttr /\ [][NextAttr]_vars

----------------------------------------------------------------------------
(* The repair loop on every pair of colours: SpecLoop. *)

Lightness == {5 * i : i \in 0..20}

\* the text colours and the target backgrounds the loop is started on
LoopInputs ==
    {LoopStart(Rgb(c, 1), bg) :
        c \in Lightness,
        bg \in {Hex(b, 1) : b \in Lightness} \cup {Rgb(0, 0), Absent}}

InitLoop ==
    /\ Constructed(NoFilter)
    /\ Loaded
    /\ css = PageCss
    /\ els = PageEls
    /\ loop \in LoopInputs
    /\ NoHarness

\* one evaluation of `while (!readable && readableAttempts < 10)`
LoopIterate ==
    /\ loop.pc = "while"
    /\ loop' = LoopStep(loop)
    /\ UNCHANGED <<parent, inShadow, css, els, isEnabled, pageRoot, elements,
                   observers, shadowRoots, shadowSheets, hoverColorRules,
                   backgroundColor, sheetFilled, docAdopted, adopted, pageObserved,
                   liveObs, pendingRoot, pendingSub, raf, mutationObserverOptions,
                   lastOp, tnode, pre, prev, hist>>

NextLoop == LoopIterate

SpecLoop == InitLoop /\ [][NextLoop]_vars

----------------------------------------------------------------------------
(* #darken and #undarken on one element, for every inline state: SpecElem. *)

TestNodes == {"div", "leaf", "img", "host"}

\* the inline declarations an author may have put on the element
InlineInputs ==
    {[Bare EXCEPT !.color = c, !.backgroundColor = b, !.borderColor = bd,
                  !.backgroundImage = img] :
        c \in {Absent, Named(0, 1)},
        b \in {Absent, Rgb(100, 1)},
        bd \in {Absent, Named(0, 0), Rgb(30, 1)},
        img \in {AbsentImg, UrlImg, Gradient(<<100, 0>>)}}

\* the values the style sheets may give the element
SheetInputs ==
    {Sheet(Rgb(50, 1), bg, bd, img) :
        bg \in {Rgb(100, 1), Rgb(20, 1), Transparent},
        bd \in {Absent, Transparent},
        img \in {NoneImg, Gradient(<<10, 90>>)}}

InitElem ==
    /\ Constructed(NoFilter)
    /\ tnode \in TestNodes
    /\ \E detached \in BOOLEAN :
          /\ parent = [n \in Nodes |->
                          IF detached /\ n = tnode THEN NoNode ELSE HomeParent(n)]
          /\ inShadow = [n \in Nodes |->
                          IF detached /\ n = tnode THEN FALSE ELSE HomeInShadow(n)]
    /\ \E sheet \in SheetInputs : css = [PageCss EXCEPT ![tnode] = sheet]
    /\ \E inline \in InlineInputs :
          /\ els = [PageEls EXCEPT ![tnode] = inline]
          /\ pre = inline
          /\ prev = inline
    /\ hist = <<>>
    /\ loop = LoopIdle

elemFrame == <<parent, inShadow, css, isEnabled, pageRoot, sheetFilled, docAdopted,
               pageObserved, pendingRoot, raf, mutationObserverOptions, lastOp, loop,
               tnode, pre>>

\* the page's style sheets gain or lose their :hover border rules, and the
\* index holds what #walk collects from them
SetHoverRules(rules) ==
    /\ hist = <<>>
    /\ hoverColorRules' = rules
    /\ UNCHANGED <<els, elements, observers, shadowRoots, shadowSheets,
                   backgroundColor, adopted, liveObs, pendingSub, prev, hist>>
    /\ UNCHANGED elemFrame

\* this.#darken(el)
CallDarken ==
    /\ Len(hist) < MaxOps
    /\ Commit(Darken(tnode, Cur))
    /\ prev' = els[tnode]
    /\ hist' = Append(hist, "darken")
    /\ UNCHANGED elemFrame

\* this.#undarken(el)
CallUndarken ==
    /\ Len(hist) < MaxOps
    /\ Commit(Undarken(tnode, Cur))
    /\ prev' = els[tnode]
    /\ hist' = Append(hist, "undarken")
    /\ UNCHANGED elemFrame

NextElem ==
    \/ \E root \in PageRoots : SetPageRoot(root)
    \/ \E rules \in {{}, {"div:hover", "x-host:hover"}} : SetHoverRules(rules)
    \/ CallDarken
    \/ CallUndarken

SpecElem == InitElem /\ [][NextElem]_vars

----------------------------------------------------------------------------
(* Properties of #darken and #undarken (SpecElem, SpecLoop). *)

\* the three inline declarations the round trip is about
Declared(el) == <<el.color, el.backgroundColor, el.borderColor>>

\* hist ends with the calls a, b
EndsWith(a, b) ==
    /\ Len(hist) >= 2
    /\ hist[Len(hist) - 1] = a
    /\ hist[Len(hist)] = b

\* every call so far was #darken
OnlyDarkened == \A i \in 1..Len(hist) : hist[i] = "darken"

\* C1: for a non-excluded element, #darken followed by #undarken leaves the
\* inline color, background-color and border-color exactly as they were
\* before theming, declared or absent.
RoundTrip ==
    (hist = <<"darken", "undarken">> /\ ~IsFiltered(tnode))
        => Declared(els[tnode]) = Declared(pre)

\* C6: the repair loop ends after at most 10 lightening steps, and on exit
\* the colour is readable against the target background at level AAA or 10
\* steps were made.
ContrastBound ==
    loop.pc = "exit" =>
        /\ loop.readableAttempts <= MaxAttempts
        /\ \/ IsReadable(loop.colored, loop.bg, "AAA")
           \/ loop.readableAttempts = MaxAttempts

\* C7: a second #darken with no #undarken in between leaves the element's
\* inline style, markers and snapshot as the first left them, and after any
\* number of #darken calls the snapshot holds the pre-theme declarations.
Idempotence ==
    /\ EndsWith("darken", "darken") => els[tnode] = prev
    /\ (Len(hist) >= 1 /\ OnlyDarkened /\ ~IsFiltered(tnode)) =>
           /\ els[tnode].lightsOut
           /\ els[tnode].originalColor = pre.color
           /\ els[tnode].originalBgColor = pre.backgroundColor

\* an element with inline declarations and a gradient, themed twice
IdempotenceWitness ==
    /\ hist = <<"darken", "darken">>
    /\ els[tnode].lightsOut
    /\ els[tnode].lightsOutGradient
    /\ els[tnode].originalColor # Absent
    /\ els[tnode].color # pre.color

----------------------------------------------------------------------------
(* Properties of the engine in a page (Spec). *)

\* disable() has just returned (called directly or through toggle)
AfterDisable == lastOp = "disable" \/ (lastOp = "toggle" /\ ~isEnabled)

\* the element carries neither the themed marker nor a snapshot value
Clean(el) ==
    /\ ~el.lightsOut
    /\ ~el.lightsOutGradient
    /\ el.originalColor = Absent
    /\ el.originalBgColor = Absent
    /\ el.originalBorderColor = Absent
    /\ el.originalBgImage = AbsentImg

\* the step is a call of enable(), directly or through toggle
EnableStep == lastOp' = "enable" \/ (lastOp' = "toggle" /\ isEnabled')

\* a step that runs a re-theme pass (#update): enable(), the root observer's
\* callback or a frame callback (each told first by what only it changes)
Pass ==
    \/ (EnableStep /\ EnableBody)
    \/ (pendingRoot /\ ~pendingRoot' /\ PageCallback)
    \/ \E h \in Hosts : (raf'[h] < raf[h] /\ FrameCallback(h))

\* C2: when disable() returns, no element carries the themed marker or a
\* snapshot value, whatever operations came before.
NoneLeftThemed == AfterDisable => \A n \in Nodes : Clean(els[n])

\* C3: a frame callback of a sub-tree observer that fires when the engine is
\* Disabled and no observer is registered (it was scheduled before disable()
\* ran) changes no element, registers no observer, adds nothing to the
\* Membership Set or the sub-tree registry and leaves backgroundColor alone.
StaleCallbackNoOp ==
    [][(~isEnabled /\ observers = {} /\ \E h \in Hosts : FrameCallback(h)) =>
          /\ els' = els
          /\ observers' = observers
          /\ liveObs' = liveObs
          /\ SeqSet(elements') \subseteq SeqSet(elements)
          /\ SeqSet(shadowRoots') \subseteq SeqSet(shadowRoots)
          /\ backgroundColor' = backgroundColor]_vars

\* C4: when disable() returns, the root observer observes nothing, the
\* registry of sub-tree observers is empty and no observer it held is
\* connected or has records to deliver.
ObserverCleanup ==
    AfterDisable =>
        /\ pageObserved = {}
        /\ ~pendingRoot
        /\ observers = {}
        /\ pendingSub = {}
        /\ \A h \in Hosts : liveObs[h] = 0

\* disable() has returned after passes that discovered both sub-trees
ObserverCleanupWitness ==
    /\ lastOp = "disable"
    /\ \A h \in Hosts : adopted[h] > 0 /\ IsConnected(h)

\* C5: after any re-theme pass, every observer of the registry is bound to a
\* host that is attached to the document (stated for the passes run while
\* the theming root itself is attached).
ObserverGC ==
    [][(IsConnected(pageRoot) /\ Pass) => \A h \in observers' : IsConnected(h)]_vars

\* the element matches at least one selector of the filter set
Excluded(n) == \E selector \in HtmlFilterSet : Matches(n, selector)

\* C8: a re-theme pass leaves the inline style, the marker and the snapshot
\* of every element that matches the filter set unchanged.
Exclusion ==
    [][Pass => \A n \in Nodes : Excluded(n) => els'[n] = els[n]]_vars

\* a pass has indexed and skipped the excluded element, and themed its parent
ExclusionWitness ==
    /\ "img" \in SeqSet(elements)
    /\ els["body"].lightsOut
    /\ els["img"] = PageEls["img"]
    /\ els["img"].borderColor # Absent

\* C9: toggle() ends in the opposite state, toggle(true) ends Enabled and
\* toggle(false) ends Disabled, each by the effects of enable() or disable().
ToggleSemantics ==
    [][\A force \in {"undefined", "true", "false"} :
          (lastOp' = "toggle" /\ Toggle(force)) =>
              /\ force = "undefined" => isEnabled' = ~isEnabled
              /\ force = "true" => isEnabled' /\ EnableBody
              /\ force = "false" => ~isEnabled' /\ DisableBody]_vars

\* toggle has switched an enabled engine, with themed sub-trees, off
ToggleWitness ==
    /\ lastOp = "toggle"
    /\ ~isEnabled
    /\ docAdopted > 0

\* the state the idempotence of enable() and disable() is about
Lifecycle ==
    <<els, isEnabled, pageRoot, elements, observers, shadowRoots, shadowSheets,
      hoverColorRules, backgroundColor, sheetFilled, docAdopted, adopted,
      pageObserved, liveObs>>

\* C10: with no tree mutation in between, enable() right after enable(), and
\* disable() right after disable(), leave the state the first call left.
LifecycleIdempotent ==
    [][/\ (lastOp = "enable" /\ Enable) => UNCHANGED Lifecycle
       /\ (lastOp = "disable" /\ Disable) => UNCHANGED Lifecycle]_vars

\* the engine's fields, the observers' bindings and queues, the elements and
\* the adopted lists
EngineState ==
    <<isEnabled, pageRoot, pageObserved, pendingRoot, els, elements, observers,
      shadowRoots, shadowSheets, hoverColorRules, backgroundColor, sheetFilled,
      docAdopted, adopted, liveObs, pendingSub, raf>>

\* C11: assigning a value that is no element to pageRoot raises an error and
\* leaves the theming root, the root observer's binding, the elements, the
\* indices and the adopted lists as they were, Enabled or Disabled.
PageRootMisuse ==
    [][\A root \in NonElements :
          SetPageRoot(root) => (lastOp' = "threw" /\ UNCHANGED EngineState)]_vars

\* the assignment was rejected while Enabled, the root observer bound to a
\* root assigned earlier and the sub-trees indexed
PageRootMisuseWitness ==
    /\ lastOp = "threw"
    /\ isEnabled
    /\ pageRoot = "host"
    /\ pageObserved = {"host"}
    /\ observers # {}

\* the darkened background of the theming root at the configured alpha
RootBackground ==
    ToHex(CAlpha(CDarken(Colord(GetComputedStyle(pageRoot, els).backgroundColor), 90),
                 PageRootAlpha))

\* C12: backgroundColor is empty whenever the engine is Disabled, the
\* enable() that starts a cycle sets it to the darkened background of the
\* theming root at the configured alpha, and no later step of the cycle
\* changes it.
BackgroundCaching ==
    [][/\ ~isEnabled' => backgroundColor' = Absent
       /\ (~isEnabled /\ EnableStep) => backgroundColor' = RootBackground
       /\ (isEnabled /\ isEnabled' /\ backgroundColor # Absent) =>
              backgroundColor' = backgroundColor]_vars

\* n is root or a descendant of root, through children and shadow roots
RECURSIVE Under(_, _)
Under(n, root) ==
    \/ n = root
    \/ (parent[n] # NoNode /\ Under(parent[n], root))

\* the elements inside the isolated sub-tree that h exposes
Inside(h) == {n \in Nodes : n # h /\ Under(n, h)}

\* C13: when enable() returns, every isolated sub-tree reachable from the
\* theming root, the one the root itself exposes included, has the generated
\* sheet in its adopted list and the themed marker on each of its elements
\* that does not match the filter set.
SubtreesThemed ==
    [][EnableStep =>
          \A h \in Hosts :
              Under(h, pageRoot) =>
                  /\ adopted'[h] > 0
                  /\ \A n \in Inside(h) : ~Excluded(n) => els'[n].lightsOut]_vars

\* C14: however many mutation batches a sub-tree's observer is delivered
\* before a frame, at most one frame callback, and so at most one re-theme
\* pass rooted at its host, is scheduled for that frame.
Coalescing == \A h \in Hosts : raf[h] <= 1

\* C15: no element that matches a selector of the filter set is a member of
\* the Membership Set (#elements).
MembershipFilter == \A n \in SeqSet(elements) : ~Excluded(n)

\* the isolated sub-tree that h exposes has elements in the Membership Set
Indexed(h, members) == \E n \in members : parent[n] = h /\ inShadow[n]

\* C16: at most one connected observer is bound to any isolated sub-tree, and
\* after a re-theme pass run while Enabled every isolated sub-tree with
\* elements in the Membership Set, the one the pass's root exposes included,
\* has exactly one observer, registered under its host.
OneObserver ==
    [][/\ \A h \in Hosts : liveObs'[h] <= 1
       /\ (isEnabled' /\ Pass) =>
              \A h \in Hosts :
                  Indexed(h, SeqSet(elements')) =>
                      (h \in observers' /\ liveObs'[h] = 1)]_vars

\* the computed background of the element under test
BackgroundBefore == GetComputedStyle(tnode, els).backgroundColor

\* C17: #darken gives the forced darkened background at the root opacity to
\* the theming root and to no other element: a non-excluded element that is
\* not the root keeps a background that is already dark, and has a background
\* that is not dark darkened without the root opacity.
RootOnlyBackground ==
    [][(CallDarken /\ hist = <<>> /\ ~Excluded(tnode)) =>
          els'[tnode].backgroundColor =
              IF tnode = pageRoot
              THEN Serialize(ToHex(CAlpha(CDarken(Colord(BackgroundBefore), 90),
                                          PageRootAlpha)))
              ELSE IF IsDark(Colord(BackgroundBefore))
              THEN BackgroundBefore
              ELSE Serialize(ToHex(CDarken(Colord(BackgroundBefore), 90)))]_vars

\* C19: the root observer observes exactly the current theming root when the
\* engine is Enabled and nothing when it is Disabled, so it is never left
\* bound to a former root.
RootObserverBinding == pageObserved = (IF isEnabled THEN {pageRoot} ELSE {})

\* the root was reassigned while Enabled, after the sub-trees were indexed
\* under the former root
RootObserverBindingWitness ==
    /\ isEnabled
    /\ pageRoot = "host"
    /\ pageObserved = {"host"}
    /\ "body" \in SeqSet(elements)
    /\ lastOp = "other"

\* C20: no step removes an occurrence of the generated sheet from an adopted
\* list: a call of enable() appends exactly one to the document's list and no
\* other step changes that list, a re-theme pass appends exactly one to the
\* list of every sub-tree in the registry, and disable() changes no list.
AdoptedOnlyGrow ==
    [][/\ docAdopted' = (IF EnableStep THEN docAdopted + 1 ELSE docAdopted)
       /\ \A h \in Hosts : adopted'[h] >= adopted[h]
       /\ Pass => \A h \in SeqSet(shadowRoots') : adopted'[h] = adopted[h] + 1
       /\ (~isEnabled' /\ DisableBody) => adopted' = adopted]_vars

\* disable() has returned after two calls of enable(), and the lists still
\* hold the occurrences appended while Enabled
AdoptedOnlyGrowWitness ==
    /\ lastOp = "disable"
    /\ ~sheetFilled
    /\ docAdopted = 2
    /\ adopted["inner"] >= 2
    /\ adopted["host"] >= 1

\* C18: whatever attribute allow-list the engine was constructed with, the
\* writes of a re-theme pass queue no record for the root observer or for a
\* sub-tree observer: after the pass no observer has records it did not have
\* before, and the root observer has none after its own callback.
NoFeedback ==
    [][Pass =>
          /\ pendingSub' \subseteq pendingSub
          /\ pendingRoot' => (pendingRoot /\ ~PageCallback)]_vars
====
